---------------------------- MODULE Spec2Model ----------------------------
(* Model of src/app.py: the stock-out ledger (data/stock_records.csv), the  *)
(* installer submission, the admin approve/reject dashboard and the manager *)
(* summary.                                                                 *)
(*                                                                          *)
(* Representation.                                                          *)
(*  - A ledger row is a record over Columns.  Date is the wall-clock second *)
(*    (strftime "%Y-%m-%d %H:%M:%S" is fixed width and zero padded, so the  *)
(*    text order of the column is the order of the seconds).                *)
(*  - data_file holds the cells as the text written to the CSV file; df and *)
(*    the other tables hold the cells as pandas holds them in memory: a     *)
(*    text cell that pd.read_csv takes for a missing value is NaN there.    *)
(*  - The quantities are integers on both sides (int -> digits -> int64).   *)
(*  - No text input of the model reads as a number, so pd.read_csv infers   *)
(*    no numeric type for a text column.                                    *)
EXTENDS Integers, Sequences, FiniteSets, TLC

VARIABLES
    data_file,   \* rows of DATA_FILE (text cells), meaningful when file_state = "ok"
    file_state,  \* "missing": DATA_FILE does not exist; "ok"; "truncated": opened for writing, nothing written yet
    photos_dir,  \* names of the files under PHOTOS_DIR
    now,         \* datetime.now(), in seconds
    df,          \* the table held by the last script run when it returned
    display_df,  \* the table shown by the last admin run
    summary,     \* the "Quick Summary" of the last manager run (set of group rows)
    last,        \* what the last script run was asked and what it answered
    sess,        \* per session: position and locals of a run in progress (interleaved runs only)
    hist         \* history of the interleaved runs (what completed, whether runs overlapped)

vars == <<data_file, file_state, photos_dir, now, df, display_df, summary, last, sess, hist>>

-----------------------------------------------------------------------------
(* Bounds *)

MaxRows == 2
MaxTime == 1
MaxRuns == 3

-----------------------------------------------------------------------------
(* Fixed texts of the program *)

DN15 == "DN15 - 15mm LXC Blue Meter (inside blue & white meter box)"
CIU == "CIU - White keypad with red button"

Pending == "Pending Approval"
Approved == "Approved"
Rejected == "Rejected"

Columns == {"Date", "Transaction_ID", "Action", "Meter_Type", "Meter_Quantity",
            "CIU_Quantity", "Stock_Issued_To", "Photo_Path", "Status", "Notes"}

\* The columns whose cells are text in the file (Date: see the header).
TextColumns == {"Transaction_ID", "Action", "Meter_Type", "Stock_Issued_To",
                "Photo_Path", "Status", "Notes"}

StatusFilterOptions == {"All", Pending, Approved, Rejected}

ApproveButton == "Approve Transaction"
RejectButton == "Reject Transaction"
NoButton == "none"
Buttons == {NoButton, ApproveButton, RejectButton}

-----------------------------------------------------------------------------
(* pandas' CSV conversions (pd.read_csv and DataFrame.to_csv with defaults) *)

\* The missing value of a text cell in memory (float nan).  No input of the
\* model is this text.
NaN == "NaN"

\* pd.read_csv, keep_default_na=True: the texts read as a missing value.
NAValues == {"", "#N/A", "#N/A N/A", "#NA", "-1.#IND", "-1.#QNAN", "-NaN", "-nan",
             "1.#IND", "1.#QNAN", "<NA>", "N/A", "NA", "NULL", "NaN", "None",
             "n/a", "nan", "null"}

read_cell(text) == IF text \in NAValues THEN NaN ELSE text

\* to_csv, na_rep='': a missing value is written as the empty text.
to_csv_cell(v) == IF v = NaN THEN "" ELSE v

read_row(r) == [c \in Columns |-> IF c \in TextColumns THEN read_cell(r[c]) ELSE r[c]]

to_csv_row(r) == [c \in Columns |-> IF c \in TextColumns THEN to_csv_cell(r[c]) ELSE r[c]]

read_csv(rows) == [i \in DOMAIN rows |-> read_row(rows[i])]

to_csv(table) == [i \in DOMAIN table |-> to_csv_row(table[i])]

\* load_data: the rows of the file; the empty table when the file is missing
\* or read_csv raises (a file with no header line: EmptyDataError).
load_data(state, rows) ==
    IF state = "ok" THEN read_csv(rows)
    ELSE IF state = "truncated" THEN <<>>
    ELSE <<>>


-----------------------------------------------------------------------------
(* Inputs *)

\* What the installer form holds when "Submit Stock Out" is clicked.
Form(meter_type, meter_qty, ciu_qty, stock_issued_to, notes, uploaded_photos) ==
    [meter_type |-> meter_type, meter_qty |-> meter_qty, ciu_qty |-> ciu_qty,
     stock_issued_to |-> stock_issued_to, notes |-> notes,
     uploaded_photos |-> uploaded_photos]

NoForm == Form(<<>>, 0, 0, "", "", <<>>)

\* The submissions tried: three that pass the presence checks of the code
\* (one with a blank recipient, one with the note "N/A"), one without a
\* meter type, one without a recipient.
Forms ==
    { Form(<<DN15>>, 5, 2, "Team A", "", <<"a.jpg", "b.png">>),
      Form(<<DN15>>, 1, 0, "Team A", "N/A", <<>>),
      Form(<<DN15, CIU>>, 0, 3, " ", "spare", <<"a.jpg">>),
      Form(<<>>, 5, 2, "Team A", "", <<"a.jpg">>),
      Form(<<DN15>>, 5, 2, "", "", <<"a.jpg">>) }

-----------------------------------------------------------------------------
(* Helpers of the handlers *)

PHOTOS_DIR == "photos"

\* f"TXN-{datetime.now().strftime('%Y%m%d%H%M%S')}": one text per second.
generate_txn_id(t) == "TXN-" \o ToString(t)

\* sep.join(texts)
RECURSIVE join(_, _)
join(sep, texts) ==
    IF texts = <<>> THEN ""
    ELSE IF Len(texts) = 1 THEN texts[1]
    ELSE texts[1] \o sep \o join(sep, Tail(texts))

safe_name(txn_id, name) == txn_id \o "_" \o name

\* The loop over uploaded_photos: str(PHOTOS_DIR / safe_name), in upload order.
saved_photo_paths(txn_id, uploaded_photos) ==
    [i \in DOMAIN uploaded_photos |->
        PHOTOS_DIR \o "/" \o safe_name(txn_id, uploaded_photos[i])]

written_photos(txn_id, uploaded_photos) ==
    { safe_name(txn_id, uploaded_photos[i]) : i \in DOMAIN uploaded_photos }

\* The entry dict of installer_ui.
new_entry(txn_id, date, form) ==
    [Date |-> date,
     Transaction_ID |-> txn_id,
     Action |-> "Stock Out",
     Meter_Type |-> join(", ", form.meter_type),
     Meter_Quantity |-> form.meter_qty,
     CIU_Quantity |-> form.ciu_qty,
     Stock_Issued_To |-> form.stock_issued_to,
     Photo_Path |-> join("|", saved_photo_paths(txn_id, form.uploaded_photos)),
     Status |-> Pending,
     Notes |-> IF form.notes = "" THEN "" ELSE form.notes]

\* The presence checks of installer_ui: the warning shown, "" when both pass.
validation(form) ==
    IF form.meter_type = <<>> THEN "warning_meter_type"
    ELSE IF form.stock_issued_to = "" THEN "warning_issued_to"
    ELSE ""

\* Mutant of concat: the new frame replaces the table instead of extending it.
concat_replaces(table, entry) == <<entry>>

\* pd.concat([df, pd.DataFrame([entry])], ignore_index=True)
concat(table, entry) == Append(table, entry)

\* Mutant of set_status: the status is recorded as a further row.
set_status_appends(table, selected_txn, status) ==
    table \o SelectSeq([i \in DOMAIN table |-> [table[i] EXCEPT !.Status = status]],
                       LAMBDA r : r.Transaction_ID = selected_txn)

\* Mutant of set_status: the row mask is dropped.
set_status_all_rows(table, selected_txn, status) ==
    [i \in DOMAIN table |-> [table[i] EXCEPT !.Status = status]]

\* df.loc[df["Transaction_ID"] == selected_txn, "Status"] = status
set_status(table, selected_txn, status) ==
    [i \in DOMAIN table |->
        IF table[i].Transaction_ID = selected_txn
        THEN [table[i] EXCEPT !.Status = status]
        ELSE table[i]]

\* [""] + df["Transaction_ID"].tolist()
txn_options(table) == <<"">> \o [i \in DOMAIN table |-> table[i].Transaction_ID]

\* Mutant of selectbox: a free-text field instead of a selector.
selectbox_free_text(options, choice) == choice

\* st.selectbox: the value is one of the options; anything else cannot be
\* chosen and the widget yields its default, the first option.
selectbox(options, choice) ==
    IF \E i \in DOMAIN options : options[i] = choice THEN choice ELSE options[1]

match_status(r, status_filter) == r.Status = status_filter

\* df.copy() for "All", df[df["Status"] == status_filter].copy() otherwise
filter_status(table, status_filter) ==
    IF status_filter = "All" THEN table
    ELSE SelectSeq(table, LAMBDA r : match_status(r, status_filter))

\* Mutant of insert_positions: ascending=True.
insert_positions_ascending(r, sorted) ==
    { k \in 0..Len(sorted) :
        /\ \A i \in 1..k : sorted[i].Date <= r.Date
        /\ \A i \in (k + 1)..Len(sorted) : sorted[i].Date >= r.Date }

\* Where a row may be put into a table already ordered by Date descending:
\* after the later ones, before the earlier ones, anywhere among equal ones.
insert_positions(r, sorted) ==
    { k \in 0..Len(sorted) :
        /\ \A i \in 1..k : sorted[i].Date >= r.Date
        /\ \A i \in (k + 1)..Len(sorted) : sorted[i].Date <= r.Date }

\* sort_values(by="Date", ascending=False).reset_index(drop=True).  The
\* default sort is not stable: every order of the rows with equal Date is a
\* possible result.
RECURSIVE sort_values(_)
sort_values(table) ==
    IF table = <<>> THEN {<<>>}
    ELSE UNION { { SubSeq(s, 1, k) \o <<Head(table)>> \o SubSeq(s, k + 1, Len(s)) :
                     k \in insert_positions(Head(table), s) } :
                 s \in sort_values(Tail(table)) }

\* Mutant of add_to_groups: the last row of a group replaces its sums.
add_to_groups_last_wins(groups, r) ==
    { g \in groups : ~(g.Meter_Type = r.Meter_Type /\ g.Status = r.Status) }
    \cup { [Meter_Type |-> r.Meter_Type, Status |-> r.Status,
            Meter_Quantity |-> r.Meter_Quantity, CIU_Quantity |-> r.CIU_Quantity] }

\* One more row added to the groups of df.groupby(["Meter_Type", "Status"],
\* as_index=False)[["Meter_Quantity", "CIU_Quantity"]].sum(); a row whose key
\* is missing belongs to no group (dropna=True).
add_to_groups(groups, r) ==
    IF r.Meter_Type = NaN \/ r.Status = NaN THEN groups
    ELSE IF \E g \in groups : g.Meter_Type = r.Meter_Type /\ g.Status = r.Status
    THEN { IF g.Meter_Type = r.Meter_Type /\ g.Status = r.Status
           THEN [g EXCEPT !.Meter_Quantity = @ + r.Meter_Quantity,
                          !.CIU_Quantity = @ + r.CIU_Quantity]
           ELSE g : g \in groups }
    ELSE groups \cup { [Meter_Type |-> r.Meter_Type, Status |-> r.Status,
                        Meter_Quantity |-> r.Meter_Quantity,
                        CIU_Quantity |-> r.CIU_Quantity] }

RECURSIVE groupby_sum(_)
groupby_sum(table) ==
    IF table = <<>> THEN {}
    ELSE add_to_groups(groupby_sum(SubSeq(table, 1, Len(table) - 1)), table[Len(table)])

-----------------------------------------------------------------------------
(* State *)

Sessions == {1, 2}

Idle == [pc |-> "idle", op |-> "none", form |-> NoForm, txn |-> "", status |-> "",
         df |-> <<>>]

Report(op, msg, txn, button, choice, status_filter, form) ==
    [op |-> op, msg |-> msg, txn |-> txn, button |-> button, choice |-> choice,
     status_filter |-> status_filter, form |-> form]

NoReport == Report("none", "none", "", NoButton, "", "All", NoForm)

\* No script run is under way and nothing of the last one is left.
Ready == last = NoReport /\ \A s \in Sessions : sess[s].pc = "idle"

\* started: runs begun; submitted: submissions completed; decided[i]: the
\* status the last completed approve/reject gave row i ("": none);
\* overlapped: some run loaded the ledger while another was between its load
\* and the end of its save; submits_overlapped: both were submissions.
NoHist ==
    [started |-> 0, submitted |-> 0, decided |-> [i \in 1..MaxRows |-> ""],
     overlapped |-> FALSE, submits_overlapped |-> FALSE]

Init ==
    /\ data_file = <<>>
    /\ file_state = "missing"
    /\ photos_dir = {}
    /\ now = 0
    /\ df = <<>>
    /\ display_df = <<>>
    /\ summary = {}
    /\ last = NoReport
    /\ sess = [s \in Sessions |-> Idle]
    /\ hist = NoHist

\* save_data: the whole table replaces the file.
save_data(table) ==
    /\ data_file' = to_csv(table)
    /\ file_state' = "ok"

-----------------------------------------------------------------------------
(* Script runs, one at a time *)

Tick ==
    /\ Ready
    /\ now < MaxTime
    /\ now' = now + 1
    /\ UNCHANGED <<data_file, file_state, photos_dir, df, display_df, summary, last,
                   sess, hist>>

\* installer_ui with "Submit Stock Out" clicked.  The clock is read twice
\* (the id, then Date): date is the second reading.
installer_ui(form) ==
    /\ Ready
    /\ UNCHANGED <<sess, hist>>
    /\ display_df' = <<>>
    /\ summary' = {}
    /\ IF validation(form) # ""
       THEN /\ last' = Report("installer_ui", validation(form), "", NoButton, "", "All", form)
            /\ df' = <<>>
            /\ UNCHANGED <<data_file, file_state, photos_dir, now>>
       ELSE /\ Len(data_file) < MaxRows
            /\ \E date \in {now, now + 1} :
                 /\ date <= MaxTime
                 /\ LET txn_id == generate_txn_id(now)
                        entry == new_entry(txn_id, date, form)
                        table == concat(load_data(file_state, data_file), entry)
                    IN /\ photos_dir' = photos_dir \cup written_photos(txn_id, form.uploaded_photos)
                       /\ save_data(table)
                       /\ df' = table
                       /\ now' = date
                       /\ last' = Report("installer_ui", "success", txn_id, NoButton, "", "All", form)

\* admin_ui: the dashboard is drawn for status_filter, then the chosen
\* transaction is approved or rejected if a button was clicked.  (The photo
\* viewer below it changes nothing and is left out.)
admin_ui(status_filter, choice, button) ==
    /\ Ready
    /\ UNCHANGED <<photos_dir, now, sess, hist>>
    /\ summary' = {}
    /\ LET loaded == load_data(file_state, data_file)
           selected_txn == selectbox(txn_options(loaded), choice)
           said(msg) == Report("admin_ui", msg, selected_txn, button, choice, status_filter, NoForm)
       IN IF loaded = <<>>
          THEN /\ last' = Report("admin_ui", "info_no_transactions", "", button, choice, status_filter, NoForm)
               /\ df' = loaded
               /\ display_df' = <<>>
               /\ UNCHANGED <<data_file, file_state>>
          ELSE /\ display_df' \in sort_values(filter_status(loaded, status_filter))
               /\ IF selected_txn = ""
                  THEN /\ last' = said("none")
                       /\ df' = loaded
                       /\ UNCHANGED <<data_file, file_state>>
                  ELSE IF \A i \in DOMAIN loaded : loaded[i].Transaction_ID # selected_txn
                  THEN \* .iloc[0] of an empty selection
                       /\ last' = said("IndexError")
                       /\ df' = loaded
                       /\ UNCHANGED <<data_file, file_state>>
                  ELSE IF button = ApproveButton
                  THEN /\ save_data(set_status(loaded, selected_txn, Approved))
                       /\ df' = set_status(loaded, selected_txn, Approved)
                       /\ last' = said("success_approved")
                  ELSE IF button = RejectButton
                  THEN /\ save_data(set_status(loaded, selected_txn, Rejected))
                       /\ df' = set_status(loaded, selected_txn, Rejected)
                       /\ last' = said("error_rejected")
                  ELSE /\ last' = said("none")
                       /\ df' = loaded
                       /\ UNCHANGED <<data_file, file_state>>

\* manager_ui: the Quick Summary.  (The downloads change nothing and are
\* left out.)
manager_ui ==
    /\ Ready
    /\ UNCHANGED <<data_file, file_state, photos_dir, now, sess, hist>>
    /\ display_df' = <<>>
    /\ LET loaded == load_data(file_state, data_file)
       IN /\ df' = loaded
          /\ IF loaded = <<>>
             THEN /\ summary' = {}
                  /\ last' = Report("manager_ui", "info_no_data", "", NoButton, "", "All", NoForm)
             ELSE /\ summary' = groupby_sum(loaded)
                  /\ last' = Report("manager_ui", "summary", "", NoButton, "", "All", NoForm)

\* The script run is over: Streamlit keeps none of its locals, and the next
\* run draws the page anew.
script_end ==
    /\ last # NoReport
    /\ last' = NoReport
    /\ df' = <<>>
    /\ display_df' = <<>>
    /\ summary' = {}
    /\ UNCHANGED <<data_file, file_state, photos_dir, now, sess, hist>>

\* What the admin may ask the transaction selector for.
TxnChoices == {""} \cup { generate_txn_id(t) : t \in 0..MaxTime } \cup {"TXN-000"}

\* The admin runs tried: the dashboard under each filter with no transaction
\* chosen, and each choice with each button under the default filter.
AdminInputs ==
    { <<status_filter, "", NoButton>> : status_filter \in StatusFilterOptions }
    \cup { <<"All", choice, button>> : choice \in TxnChoices, button \in Buttons }

Next ==
    \/ Tick
    \/ \E form \in Forms : installer_ui(form)
    \/ \E run \in AdminInputs : admin_ui(run[1], run[2], run[3])
    \/ manager_ui
    \/ script_end

Spec == Init /\ [][Next]_vars

-----------------------------------------------------------------------------
(* Script runs of two sessions, interleaved at their file operations.  The  *)
(* code takes no lock: a run is load_data, the change of its own table,     *)
(* then save_data, and to_csv first opens the file for writing (emptying    *)
(* it) and then writes the table.                                           *)

InRun(s) == sess[s].pc # "idle"

ConcTick ==
    /\ now < MaxTime
    /\ now' = now + 1
    /\ UNCHANGED <<data_file, file_state, photos_dir, df, display_df, summary, last,
                   sess, hist>>

\* installer_ui up to pd.concat: validation passed, the ledger is loaded and
\* the entry appended to the session's table.
submit_load(s, form) ==
    /\ sess[s].pc = "idle"
    /\ validation(form) = ""
    /\ hist.started < MaxRuns
    /\ \E date \in {now, now + 1} :
         /\ date <= MaxTime
         /\ LET txn_id == generate_txn_id(now)
                table == concat(load_data(file_state, data_file), new_entry(txn_id, date, form))
            IN /\ Len(table) <= MaxRows
               /\ photos_dir' = photos_dir \cup written_photos(txn_id, form.uploaded_photos)
               /\ now' = date
               /\ sess' = [sess EXCEPT ![s] = [pc |-> "loaded", op |-> "installer_ui",
                                               form |-> form, txn |-> txn_id,
                                               status |-> Pending, df |-> table]]
    /\ hist' = [hist EXCEPT !.started = @ + 1,
                            !.overlapped = @ \/ \E o \in Sessions \ {s} : InRun(o),
                            !.submits_overlapped =
                                @ \/ \E o \in Sessions \ {s} : sess[o].op = "installer_ui"]
    /\ UNCHANGED <<data_file, file_state, df, display_df, summary, last>>

\* admin_ui up to df.loc[...] = status: the ledger is loaded, a transaction
\* of it is selected and a button was clicked.
admin_load(s, choice, button) ==
    /\ sess[s].pc = "idle"
    /\ button # NoButton
    /\ hist.started < MaxRuns
    /\ LET loaded == load_data(file_state, data_file)
           selected_txn == selectbox(txn_options(loaded), choice)
           status == IF button = ApproveButton THEN Approved ELSE Rejected
       IN /\ loaded # <<>>
          /\ selected_txn # ""
          /\ sess' = [sess EXCEPT ![s] = [pc |-> "loaded", op |-> "admin_ui",
                                          form |-> NoForm, txn |-> selected_txn,
                                          status |-> status,
                                          df |-> set_status(loaded, selected_txn, status)]]
    /\ hist' = [hist EXCEPT !.started = @ + 1,
                            !.overlapped = @ \/ \E o \in Sessions \ {s} : InRun(o)]
    /\ UNCHANGED <<data_file, file_state, photos_dir, now, df, display_df, summary, last>>

\* save_data, first half: to_csv opens DATA_FILE with mode "w".
save_open(s) ==
    /\ sess[s].pc = "loaded"
    /\ data_file' = <<>>
    /\ file_state' = "truncated"
    /\ sess' = [sess EXCEPT ![s].pc = "writing"]
    /\ UNCHANGED <<photos_dir, now, df, display_df, summary, last, hist>>

\* save_data, second half: the table is written and the run ends.
save_write(s) ==
    /\ sess[s].pc = "writing"
    /\ save_data(sess[s].df)
    /\ sess' = [sess EXCEPT ![s] = Idle]
    /\ hist' = IF sess[s].op = "installer_ui"
               THEN [hist EXCEPT !.submitted = @ + 1]
               ELSE [hist EXCEPT !.decided =
                        [i \in DOMAIN @ |->
                            IF i \in DOMAIN sess[s].df
                               /\ sess[s].df[i].Transaction_ID = sess[s].txn
                            THEN sess[s].status ELSE @[i]]]
    /\ UNCHANGED <<photos_dir, now, df, display_df, summary, last>>

NextConc ==
    \/ ConcTick
    \/ \E s \in Sessions, form \in Forms : submit_load(s, form)
    \/ \E s \in Sessions, choice \in TxnChoices, button \in Buttons : admin_load(s, choice, button)
    \/ \E s \in Sessions : save_open(s)
    \/ \E s \in Sessions : save_write(s)

SpecConc == Init /\ [][NextConc]_vars


-----------------------------------------------------------------------------
(* Vocabulary of the properties *)

FileIds == { data_file[i].Transaction_ID : i \in DOMAIN data_file }

\* The step is a run of installer_ui / admin_ui (a run starts from Ready and
\* leaves its report in last).
SubmitStep == last = NoReport /\ last'.op = "installer_ui"
AdminStep == last = NoReport /\ last'.op = "admin_ui"

\* The blank texts among the inputs.
BlankTexts == {"", " "}

ButtonStatus(button) == IF button = ApproveButton THEN Approved ELSE Rejected

Count(table, r) == Cardinality({ i \in DOMAIN table : table[i] = r })

Rows(table) == { table[i] : i \in DOMAIN table }

RECURSIVE SumWhere(_, _, _, _)
SumWhere(table, column, meter_type, status) ==
    IF table = <<>> THEN 0
    ELSE (IF table[1].Meter_Type = meter_type /\ table[1].Status = status
          THEN table[1][column] ELSE 0)
         + SumWhere(Tail(table), column, meter_type, status)

RECURSIVE SumAll(_, _)
SumAll(table, column) ==
    IF table = <<>> THEN 0 ELSE table[1][column] + SumAll(Tail(table), column)

RECURSIVE SumGroups(_, _)
SumGroups(groups, column) ==
    IF groups = {} THEN 0
    ELSE LET g == CHOOSE x \in groups : TRUE
         IN g[column] + SumGroups(groups \ {g}, column)

-----------------------------------------------------------------------------
(* C1 *)

\* C1: in every reachable state of the ledger no two rows have the same
\* Transaction_ID.
C1_UniqueTransactionIds ==
    \A i, j \in DOMAIN data_file :
        i # j => data_file[i].Transaction_ID # data_file[j].Transaction_ID

-----------------------------------------------------------------------------
(* C2 *)

\* C2: a submission with no meter type, or with an empty or blank issued-to
\* text, is rejected with a warning and changes nothing: the ledger file is
\* as before and no photo is written.
C2_InvalidSubmissionChangesNothing ==
    [][ (SubmitStep /\ (last'.form.meter_type = <<>>
                         \/ last'.form.stock_issued_to \in BlankTexts))
        => /\ last'.msg \in {"warning_meter_type", "warning_issued_to"}
           /\ data_file' = data_file
           /\ file_state' = file_state
           /\ photos_dir' = photos_dir ]_vars

-----------------------------------------------------------------------------
(* C3 *)

ApprovedOrRejectedStep ==
    AdminStep /\ last'.msg \in {"success_approved", "error_rejected"}

\* C3: a successful approve or reject of T changes only the Status of the
\* single row whose Transaction_ID is T: every other field and row, the row
\* count and order are as before, and the file holds the updated table.
C3_OnlyStatusOfOneRowChanges ==
    [][ ApprovedOrRejectedStep
        => /\ Cardinality({ i \in DOMAIN data_file :
                              data_file[i].Transaction_ID = last'.txn }) = 1
           /\ Len(data_file') = Len(data_file)
           /\ \A i \in DOMAIN data_file :
                data_file'[i] =
                    IF data_file[i].Transaction_ID = last'.txn
                    THEN [data_file[i] EXCEPT !.Status = ButtonStatus(last'.button)]
                    ELSE data_file[i]
           /\ read_csv(data_file') = df' ]_vars

-----------------------------------------------------------------------------
(* C4 *)

\* The admin asks to approve or reject an id that no row of the ledger has.
AbsentIdStep ==
    /\ AdminStep
    /\ last'.button # NoButton
    /\ last'.choice # ""
    /\ last'.choice \notin FileIds

\* C4 as stated: an approve or reject of an id that is not in the ledger
\* fails with a not-found outcome and leaves the table and the file unchanged.
C4_AbsentIdNotFound ==
    [][ AbsentIdStep
        => /\ last'.msg = "not_found"
           /\ data_file' = data_file
           /\ file_state' = file_state
           /\ df' = load_data(file_state, data_file) ]_vars

\* C4 amended: an id that is not in the ledger cannot be selected; the
\* selector yields the empty choice, nothing is approved or rejected, no
\* not-found error is shown (only the notice of an empty ledger), and the
\* table and the file are unchanged.
C4_AbsentIdNothingHappens ==
    [][ AbsentIdStep
        => /\ last'.txn = ""
           /\ last'.msg \in {"none", "info_no_transactions"}
           /\ data_file' = data_file
           /\ file_state' = file_state
           /\ df' = load_data(file_state, data_file) ]_vars

C4_Witness ==
    /\ last.op = "admin_ui"
    /\ last.button = ApproveButton
    /\ last.choice = "TXN-000"
    /\ data_file # <<>>
    /\ last.choice \notin FileIds
    /\ last.msg = "none"

-----------------------------------------------------------------------------
(* C5 *)

\* C5: a successful submission appends exactly one row, the last one, with
\* Status "Pending Approval", Action "Stock Out", the submitted quantities,
\* recipient and notes, and one photo path per upload in upload order, named
\* <newId>_<originalFilename>; every row of the file before the submission is
\* still there with all fields unchanged.
C5_SubmissionAppendsOneRow ==
    [][ (SubmitStep /\ last'.msg = "success")
        => /\ Len(data_file') = Len(data_file) + 1
           /\ LET r == data_file'[Len(data_file')]
                  f == last'.form
              IN /\ r.Status = Pending
                 /\ r.Action = "Stock Out"
                 /\ r.Transaction_ID = last'.txn
                 /\ r.Meter_Quantity = f.meter_qty
                 /\ r.CIU_Quantity = f.ciu_qty
                 /\ r.Stock_Issued_To = f.stock_issued_to
                 /\ r.Notes = f.notes
                 /\ r.Photo_Path =
                        join("|", [i \in DOMAIN f.uploaded_photos |->
                                     PHOTOS_DIR \o "/" \o last'.txn \o "_" \o f.uploaded_photos[i]])
           /\ \A i \in DOMAIN data_file : data_file'[i] = data_file[i] ]_vars

-----------------------------------------------------------------------------
(* C6 *)

\* C6: after an approve (a reject) of a transaction, the same action once
\* more yields the same ledger, in memory and in the file, as the first.
C6_StatusActionIdempotent ==
    last.msg \in {"success_approved", "error_rejected"}
    => LET again == set_status(load_data(file_state, data_file), last.txn,
                               ButtonStatus(last.button))
       IN /\ again = df
          /\ to_csv(again) = data_file

\* An approve has run on a ledger holding a row with a missing note.
C6_Witness ==
    /\ last.msg = "success_approved"
    /\ \E i \in DOMAIN df : df[i].Notes = NaN /\ df[i].Transaction_ID = last.txn
    /\ Len(df) = 2

-----------------------------------------------------------------------------
(* C7 *)

Descending(table) ==
    \A i, j \in DOMAIN table : i < j => table[i].Date >= table[j].Date

\* shown holds exactly the rows of table that status_filter selects, each
\* as often as table does.
ExactlyTheSelected(shown, table, status_filter) ==
    /\ \A r \in Rows(table) \cup Rows(shown) :
         Count(shown, r) =
            IF status_filter = "All" \/ r.Status = status_filter
            THEN Count(table, r) ELSE 0

\* C7: the admin filter shows exactly the rows whose Status is the chosen
\* one (every row for "All"), ordered by Date descending.
C7_FilterShowsExactlySortedRows ==
    [][ (AdminStep /\ last'.msg # "info_no_transactions")
        => /\ ExactlyTheSelected(display_df', load_data(file_state, data_file),
                                 last'.status_filter)
           /\ Descending(display_df') ]_vars

\* Two pending rows of different seconds are shown latest first.
C7_Witness ==
    /\ last.op = "admin_ui"
    /\ last.status_filter = Pending
    /\ Len(display_df) = 2
    /\ display_df[1].Date > display_df[2].Date
    /\ display_df[1] = df[2]

-----------------------------------------------------------------------------
(* C8 *)

\* C8: the manager summary has one group per (Meter_Type, Status) pair of
\* the ledger, each with the exact sums of its rows, and the groups together
\* sum to the whole ledger.
C8_SummaryExact ==
    last.msg = "summary"
    => /\ { <<g.Meter_Type, g.Status>> : g \in summary }
            = { <<r.Meter_Type, r.Status>> : r \in Rows(df) }
       /\ Cardinality(summary) = Cardinality({ <<r.Meter_Type, r.Status>> : r \in Rows(df) })
       /\ \A g \in summary :
            /\ g.Meter_Quantity = SumWhere(df, "Meter_Quantity", g.Meter_Type, g.Status)
            /\ g.CIU_Quantity = SumWhere(df, "CIU_Quantity", g.Meter_Type, g.Status)
       /\ SumGroups(summary, "Meter_Quantity") = SumAll(df, "Meter_Quantity")
       /\ SumGroups(summary, "CIU_Quantity") = SumAll(df, "CIU_Quantity")

\* A group of two rows, with different quantities.
C8_Witness ==
    /\ last.msg = "summary"
    /\ Len(df) = 2
    /\ \E g \in summary : g.Meter_Quantity = 6 /\ g.CIU_Quantity = 2

-----------------------------------------------------------------------------
(* C9 *)

\* C9 as stated: every change of a record's Status is Pending Approval to
\* Approved or Pending Approval to Rejected.
C9_OnlyFromPending ==
    [][ \A i \in DOMAIN data_file :
          /\ i \in DOMAIN data_file'
          /\ data_file'[i].Status # data_file[i].Status
             => /\ data_file[i].Status = Pending
                /\ data_file'[i].Status \in {Approved, Rejected} ]_vars

\* C9 amended: every change of a record's Status is made by an approve or a
\* reject of that record's id and sets it to Approved or Rejected, whatever
\* it was before (Approved may become Rejected and Rejected Approved); no
\* record returns to Pending Approval and no record is removed.
C9_OnlyByApproveOrReject ==
    [][ \A i \in DOMAIN data_file :
          /\ i \in DOMAIN data_file'
          /\ data_file'[i].Status # data_file[i].Status
             => /\ ApprovedOrRejectedStep
                /\ data_file[i].Transaction_ID = last'.txn
                /\ data_file'[i].Status = ButtonStatus(last'.button)
                /\ data_file'[i].Status \in {Approved, Rejected} ]_vars

\* A reject has run on a row that the same run still showed as Approved.
C9_Witness ==
    /\ last.msg = "error_rejected"
    /\ \E i \in DOMAIN display_df :
         display_df[i].Transaction_ID = last.txn /\ display_df[i].Status = Approved
    /\ \E i \in DOMAIN data_file :
         data_file[i].Transaction_ID = last.txn /\ data_file[i].Status = Rejected

-----------------------------------------------------------------------------
(* C10 *)

AllIdle == \A s \in Sessions : sess[s].pc = "idle"

\* The file holds a row for every completed submission and the status of
\* every completed approve or reject.
NothingLost ==
    /\ file_state = "ok" \/ hist.submitted = 0
    /\ Len(data_file) = hist.submitted
    /\ \A i \in DOMAIN hist.decided :
         hist.decided[i] # "" => i \in DOMAIN data_file /\ data_file[i].Status = hist.decided[i]

=============================================================================
